---- MODULE Spec2Model ----
(***************************************************************************)
(* Model of engines/dialogs.cpp: the in-game main menu (MainMenuDialog),   *)
(* the tabbed options dialog (ConfigDialog) and the engine-specific        *)
(* checkbox panel (ExtraGuiOptionsWidget).                                 *)
(***************************************************************************)
EXTENDS Integers, Sequences, FiniteSets, TLC

(***************************************************************************)
(* Bounds of the model.                                                    *)
(***************************************************************************)
MaxOptions == 2

MaxGroupId == 2

MaxSlot == 1

MaxKeymaps == 1

MaxAchievements == 2

(***************************************************************************)
(* State                                                                   *)
(***************************************************************************)
\* ExtraGuiOptionsWidget
VARIABLES
    options,          \* _options: the ExtraGuiOptions list given to the constructor
    checkboxEnabled,  \* _checkboxes[i]->isEnabled()
    checkboxState,    \* _checkboxes[i]->getState()
    conf,             \* the configuration store, as seen through the widget's _domain
    confWrites,       \* the ConfMan.setBool calls issued by the operation that just ran
    last              \* the operation that just ran, with its arguments

widgetVars == <<options, checkboxEnabled, checkboxState, conf, confWrites, last>>

\* MainMenuDialog
VARIABLES
    features,        \* the features _engine->hasFeature reports
    canSaveNow,      \* what _engine->canSaveGameStateCurrently reports at present
    canLoadNow,      \* what _engine->canLoadGameStateCurrently reports at present
    dialogOpen,      \* whether the main menu is running; close() ends it
    loadSlot,        \* the engine's load-requested slot, set by setGameToLoadSlot
    menuOp,          \* the operation of the main menu that just ran
    menuTrace,       \* the calls that operation made, in order
    widgets,         \* the logo and title children of the dialog
    logo,            \* _logo
    launcherLabel,   \* the label of _returnToLauncherButton
    showLogoVar,     \* "Globals.ShowGlobalMenuLogo" at the last construction or reflow
    supportsImages,  \* g_gui.theme()->supportsImages() at that time
    guiWidth         \* g_gui.getGUIWidth() at that time

menuVars == <<features, canSaveNow, canLoadNow, dialogOpen, loadSlot, menuOp,
              menuTrace, widgets, logo, launcherLabel, showLogoVar,
              supportsImages, guiWidth>>

\* ConfigDialog
VARIABLES
    environment,     \* what the engine, the meta-engine and the backend answer
    constructed,     \* whether a ConfigDialog exists
    tabs,            \* the titles of the tab widget's tabs, in order
    activeTab,       \* the tab widget's active tab, -1 when it has none
    engineOptions,   \* whether _engineOptions is non-null
    backendOptions,  \* whether _backendOptions is non-null
    forwarded        \* the calls build() or apply() just forwarded

tabVars == <<environment, constructed, tabs, activeTab, engineOptions,
             backendOptions, forwarded>>

vars == <<widgetVars, menuVars, tabVars>>

(***************************************************************************)
(* ExtraGuiOptionsWidget                                                   *)
(***************************************************************************)

Keys == {"k1", "k2"}

kClickGroupLeaderCmd == "CGLC"

kOtherCmd == "other"

\* The command value 0: a widget constructed with it sends no command.
kNoCmd == "0"

GroupIds == 0..MaxGroupId

\* The data a checkbox sends with its command: its new state, as a uint32.
DataValues == {0, 1}

ExtraGuiOption == [configOption : Keys, defaultState : BOOLEAN,
                   groupId : GroupIds, groupLeaderId : GroupIds]

Indices(s) == 1..Len(s)

\* Sequences over S of length at most n.
SeqUpTo(S, n) == UNION {[1..k -> S] : k \in 0..n}

\* ConfigManager::hasKey(key, domain)
hasKey(c, key) == c[key] # "absent"

\* ConfigManager::getBool(key, domain): the stored string parsed as a boolean
getBool(c, key) == c[key] = "true"

\* ConfigManager::setBool(key, value, domain): the boolean stored as a string
setBool(c, key, value) == [c EXCEPT ![key] = IF value THEN "true" ELSE "false"]

\* The command a checkbox is constructed with (constructor, line 422).
checkboxCmd(opt) == IF opt.groupLeaderId # 0 THEN kClickGroupLeaderCmd ELSE kNoCmd

\* First loop of handleCommand: the groupLeaderId of the option whose checkbox
\* is the sender, 0 when the sender is none of the widget's checkboxes.
findGroupLeaderId(opts, sender) ==
    IF sender \in Indices(opts) THEN opts[sender].groupLeaderId ELSE 0

\* setGroupEnabled comparing the wrong field of the option.
setGroupEnabledByLeaderField(opts, en, groupLeaderId, data) ==
    [i \in Indices(opts) |->
        IF opts[i].groupLeaderId = groupLeaderId THEN data # 0 ELSE en[i]]

\* setGroupEnabled carried on into the groups the members lead.
setGroupEnabledRecursive(opts, en, groupLeaderId, data) ==
    [i \in Indices(opts) |->
        IF \/ opts[i].groupId = groupLeaderId
           \/ \E m \in Indices(opts) :
                /\ opts[m].groupId = groupLeaderId
                /\ opts[m].groupLeaderId # 0
                /\ opts[i].groupId = opts[m].groupLeaderId
        THEN data # 0 ELSE en[i]]

\* Second loop of handleCommand: setEnabled(data != 0) on every checkbox whose
\* option belongs to the leader's group.
setGroupEnabled(opts, en, groupLeaderId, data) ==
    [i \in Indices(opts) |->
        IF opts[i].groupId = groupLeaderId THEN data # 0 ELSE en[i]]

\* The enabled states after handleCommand(sender, cmd, data).
commandResult(opts, en, sender, cmd, data) ==
    IF cmd = kClickGroupLeaderCmd
    THEN LET groupLeaderId == findGroupLeaderId(opts, sender)
         IN IF groupLeaderId = 0 THEN en
            ELSE setGroupEnabled(opts, en, groupLeaderId, data)
    ELSE en

\* ExtraGuiOptionsWidget::handleCommand(sender, cmd, data); sender 0 stands for
\* a sender that is none of the widget's checkboxes.
ExtraGuiOptionsWidget_handleCommand(sender, cmd, data) ==
    /\ checkboxEnabled' = commandResult(options, checkboxEnabled, sender, cmd, data)
    /\ confWrites' = <<>>
    /\ last' = [op |-> "handleCommand", sender |-> sender, cmd |-> cmd, data |-> data]
    /\ UNCHANGED <<options, checkboxState, conf, menuVars, tabVars>>

\* CheckboxWidget::setState(v) on checkbox i: the state is set and the
\* checkbox's command, if it has one, is sent to the widget with the new
\* state as data. The result is the pair of all checked and enabled states.
setState(opts, en, st, i, v) ==
    LET cmd == checkboxCmd(opts[i])
    IN [state |-> [st EXCEPT ![i] = v],
        enabled |-> IF cmd # kNoCmd
                    THEN commandResult(opts, en, i, cmd, IF v THEN 1 ELSE 0)
                    ELSE en]

\* The user clicks checkbox i: CheckboxWidget::toggleState. A disabled
\* checkbox takes no input.
toggleState(i) ==
    /\ i \in Indices(options)
    /\ checkboxEnabled[i]
    /\ LET r == setState(options, checkboxEnabled, checkboxState, i, ~checkboxState[i])
       IN /\ checkboxState' = r.state
          /\ checkboxEnabled' = r.enabled
    /\ confWrites' = <<>>
    /\ last' = [op |-> "toggleState", sender |-> i, cmd |-> kNoCmd, data |-> 0]
    /\ UNCHANGED <<options, conf, menuVars, tabVars>>

\* loadedState ignoring the configuration store.
loadedStateDefaultOnly(opt, c) == opt.defaultState

\* The value load() gives checkbox j.
loadedState(opt, c) ==
    IF hasKey(c, opt.configOption) THEN getBool(c, opt.configOption)
    ELSE opt.defaultState

\* The checked and enabled states after the first n iterations of load()'s loop.
RECURSIVE loadLoop(_, _, _, _, _)
loadLoop(opts, c, en, st, n) ==
    IF n = 0 THEN [state |-> st, enabled |-> en]
    ELSE LET r == loadLoop(opts, c, en, st, n - 1)
         IN setState(opts, r.enabled, r.state, n, loadedState(opts[n], c))

\* ExtraGuiOptionsWidget::load()
ExtraGuiOptionsWidget_load ==
    /\ LET r == loadLoop(options, conf, checkboxEnabled, checkboxState, Len(options))
       IN /\ checkboxState' = r.state
          /\ checkboxEnabled' = r.enabled
    /\ confWrites' = <<>>
    /\ last' = [op |-> "load", sender |-> 0, cmd |-> kNoCmd, data |-> 0]
    /\ UNCHANGED <<options, conf, menuVars, tabVars>>

\* savedValue ignoring whether the checkbox is enabled.
savedValueCheckedOnly(en, st) == st

\* The value save() writes for checkbox i.
savedValue(en, st) == en /\ st

\* The store after the first n iterations of save()'s loop.
RECURSIVE saveLoop(_, _, _, _, _)
saveLoop(c, opts, en, st, n) ==
    IF n = 0 THEN c
    ELSE setBool(saveLoop(c, opts, en, st, n - 1),
                 opts[n].configOption, savedValue(en[n], st[n]))

\* ExtraGuiOptionsWidget::save()
ExtraGuiOptionsWidget_save ==
    /\ conf' = saveLoop(conf, options, checkboxEnabled, checkboxState, Len(options))
    /\ confWrites' = [i \in Indices(options) |->
                        <<options[i].configOption,
                          savedValue(checkboxEnabled[i], checkboxState[i])>>]
    /\ last' = [op |-> "save", sender |-> 0, cmd |-> kNoCmd, data |-> 0]
    /\ UNCHANGED <<options, checkboxEnabled, checkboxState, menuVars, tabVars>>

\* The state after ExtraGuiOptionsWidget's constructor: one checkbox per
\* option, enabled and unchecked.
WidgetConstructed(opts, c) ==
    /\ options = opts
    /\ checkboxEnabled = [i \in Indices(opts) |-> TRUE]
    /\ checkboxState = [i \in Indices(opts) |-> FALSE]
    /\ conf = c
    /\ confWrites = <<>>
    /\ last = [op |-> "construct", sender |-> 0, cmd |-> kNoCmd, data |-> 0]

(***************************************************************************)
(* MainMenuDialog                                                          *)
(***************************************************************************)

kSupportsSavingDuringRuntime == "kSupportsSavingDuringRuntime"

kSupportsLoadingDuringRuntime == "kSupportsLoadingDuringRuntime"

Features == {kSupportsSavingDuringRuntime, kSupportsLoadingDuringRuntime}

kPlayCmd == "PLAY"

kLoadCmd == "LOAD"

kSaveCmd == "SAVE"

kOptionsCmd == "OPTN"

kHelpCmd == "HELP"

kAboutCmd == "ABOU"

kLauncherCmd == "RTL"

kQuitCmd == "QUIT"

MenuCommands == {kPlayCmd, kLoadCmd, kSaveCmd, kOptionsCmd, kHelpCmd, kAboutCmd,
                 kLauncherCmd, kQuitCmd}

\* The messages the engine may give with a refusal; "" is none.
EngineMsgs == {"", "rejected: mid-cutscene"}

\* The results of canSaveGameStateCurrently / canLoadGameStateCurrently.
Eligibility == {[ok |-> TRUE, msg |-> ""]} \cup {[ok |-> FALSE, msg |-> m] : m \in EngineMsgs}

\* The values a SaveLoadChooser returns: a slot, or -1 when it is dismissed.
Slots == (-1)..MaxSlot

\* The descriptions the user may enter in the save chooser.
ResultStrings == {"", "my save"}

kNoError == "kNoError"

\* The results of Engine::saveGameState.
Statuses == {[code |-> kNoError, desc |-> "No error"],
             [code |-> "kWritingFailed", desc |-> "Error writing data"]}

kNoSavingMsg == <<"This game does not support saving from the menu. Use in-game interface">>

kCannotSaveMsg == <<"This game cannot be saved at this time. Please try again later">>

kNoLoadingMsg == <<"This game does not support loading from the menu. Use in-game interface">>

kCannotLoadMsg == <<"This game cannot be loaded at this time. Please try again later">>

kHelpMsg == <<"Sorry, this engine does not currently provide in-game help.">>

\* U32String::format of the failure message with the status' description.
failMessage(desc) == <<"Failed to save game (", desc, ")! Please consult the README">>

Event(ev, slot, text) == [ev |-> ev, slot |-> slot, text |-> text]

MessageDialog(text) == Event("MessageDialog", 0, text)

closeEvent == Event("close", 0, <<>>)

\* SaveLoadChooser::createDefaultSaveDescription(slot)
createDefaultSaveDescription(slot) == <<"Save ", ToString(slot)>>

\* saveRefusal without the engine's current-state check.
saveRefusalFeatureOnly(feats, can) ==
    IF kSupportsSavingDuringRuntime \notin feats THEN kNoSavingMsg ELSE <<>>

\* The two early returns of save(): the message shown when the save is
\* refused, <<>> when it is permitted.
saveRefusal(feats, can) ==
    IF kSupportsSavingDuringRuntime \notin feats THEN kNoSavingMsg
    ELSE IF ~can.ok THEN (IF can.msg = "" THEN kCannotSaveMsg ELSE <<can.msg>>)
    ELSE <<>>

\* saveOutcome closing the dialog only when the save succeeded.
saveOutcomeCloseOnSuccess(slot, resultString, status) ==
    LET chooser == Event("_saveDialog->runModalWithCurrentTarget", slot, <<resultString>>)
        result == IF resultString = "" THEN createDefaultSaveDescription(slot)
                  ELSE <<resultString>>
    IN IF slot >= 0
       THEN [trace |-> <<chooser,
                         Event("saveGameState", slot, result),
                         Event("status", 0, <<status.code, status.desc>>)>>
                       \o (IF status.code # kNoError
                           THEN <<MessageDialog(failMessage(status.desc))>>
                           ELSE <<closeEvent>>),
             close |-> status.code = kNoError]
       ELSE [trace |-> <<chooser>>, close |-> FALSE]

\* save() from the chooser on: the calls made and whether the dialog closes.
saveOutcome(slot, resultString, status) ==
    LET chooser == Event("_saveDialog->runModalWithCurrentTarget", slot, <<resultString>>)
        result == IF resultString = "" THEN createDefaultSaveDescription(slot)
                  ELSE <<resultString>>
    IN IF slot >= 0
       THEN [trace |-> <<chooser,
                         Event("saveGameState", slot, result),
                         Event("status", 0, <<status.code, status.desc>>)>>
                       \o (IF status.code # kNoError
                           THEN <<MessageDialog(failMessage(status.desc))>>
                           ELSE <<>>)
                       \o <<closeEvent>>,
             close |-> TRUE]
       ELSE [trace |-> <<chooser>>, close |-> FALSE]

\* MainMenuDialog::save()
MainMenuDialog_save(slot, resultString, status) ==
    LET refusal == saveRefusal(features, canSaveNow)
        r == IF refusal # <<>>
             THEN [trace |-> <<MessageDialog(refusal)>>, close |-> FALSE]
             ELSE saveOutcome(slot, resultString, status)
    IN /\ menuTrace' = r.trace
       /\ dialogOpen' = ~r.close
       /\ UNCHANGED loadSlot

\* loadRefusal dropping the engine's own message.
loadRefusalFallbackOnly(feats, can) ==
    IF kSupportsLoadingDuringRuntime \notin feats THEN kNoLoadingMsg
    ELSE IF ~can.ok THEN kCannotLoadMsg
    ELSE <<>>

\* The two early returns of load(): the message shown when the load is
\* refused, <<>> when it is permitted.
loadRefusal(feats, can) ==
    IF kSupportsLoadingDuringRuntime \notin feats THEN kNoLoadingMsg
    ELSE IF ~can.ok THEN (IF can.msg = "" THEN kCannotLoadMsg ELSE <<can.msg>>)
    ELSE <<>>

\* loadOutcome passing the slot to the engine only when one was chosen.
loadOutcomeKeepOnCancel(oldSlot, slot) ==
    [trace |-> <<Event("_loadDialog->runModalWithCurrentTarget", slot, <<>>)>>
               \o (IF slot >= 0
                   THEN <<Event("setGameToLoadSlot", slot, <<>>), closeEvent>>
                   ELSE <<>>),
     loadSlot |-> IF slot >= 0 THEN slot ELSE oldSlot,
     close |-> slot >= 0]

\* load() from the chooser on: the calls made, the engine's load-requested
\* slot and whether the dialog closes.
loadOutcome(oldSlot, slot) ==
    [trace |-> <<Event("_loadDialog->runModalWithCurrentTarget", slot, <<>>),
                 Event("setGameToLoadSlot", slot, <<>>)>>
               \o (IF slot >= 0 THEN <<closeEvent>> ELSE <<>>),
     loadSlot |-> slot,
     close |-> slot >= 0]

\* MainMenuDialog::load()
MainMenuDialog_load(slot) ==
    LET refusal == loadRefusal(features, canLoadNow)
        r == IF refusal # <<>>
             THEN [trace |-> <<MessageDialog(refusal)>>, loadSlot |-> loadSlot,
                   close |-> FALSE]
             ELSE loadOutcome(loadSlot, slot)
    IN /\ menuTrace' = r.trace
       /\ loadSlot' = r.loadSlot
       /\ dialogOpen' = ~r.close

\* MainMenuDialog::handleCommand(sender, cmd, data), reached while the dialog
\* runs. The choosers' and the engine's answers are drawn by the caller.
MainMenuDialog_handleCommand(cmd, slot, resultString, status) ==
    /\ dialogOpen
    /\ menuOp' = cmd
    /\ CASE cmd = kPlayCmd ->
                /\ menuTrace' = <<closeEvent>>
                /\ dialogOpen' = FALSE
                /\ UNCHANGED loadSlot
         [] cmd = kLoadCmd -> MainMenuDialog_load(slot)
         [] cmd = kSaveCmd -> MainMenuDialog_save(slot, resultString, status)
         [] cmd = kOptionsCmd ->
                /\ menuTrace' = <<Event("configDialog.runModal", 0, <<>>)>>
                /\ UNCHANGED <<dialogOpen, loadSlot>>
         [] cmd = kAboutCmd ->
                /\ menuTrace' = <<Event("_aboutDialog->runModal", 0, <<>>)>>
                /\ UNCHANGED <<dialogOpen, loadSlot>>
         [] cmd = kHelpCmd ->
                /\ menuTrace' = <<MessageDialog(kHelpMsg)>>
                /\ UNCHANGED <<dialogOpen, loadSlot>>
         [] cmd = kLauncherCmd ->
                /\ menuTrace' = <<Event("pushEvent", 0, <<"EVENT_RETURN_TO_LAUNCHER">>),
                                  closeEvent>>
                /\ dialogOpen' = FALSE
                /\ UNCHANGED loadSlot
         [] cmd = kQuitCmd ->
                /\ menuTrace' = <<Event("pushEvent", 0, <<"EVENT_QUIT">>), closeEvent>>
                /\ dialogOpen' = FALSE
                /\ UNCHANGED loadSlot
    /\ UNCHANGED <<features, canSaveNow, canLoadNow, widgets, logo, launcherLabel,
                   showLogoVar, supportsImages, guiWidth, widgetVars, tabVars>>

kLogo == "GlobalMenu.Logo"

kTitle == "GlobalMenu.Title"

kLowresWidth == 320

\* The values "Globals.ShowGlobalMenuLogo" may have in a theme (0 when unset).
ShowLogoValues == {0, 1, 2}

GuiWidths == {kLowresWidth, kLowresWidth + 1}

\* The condition under which the logo is shown instead of the title.
showsLogo(var, images) == var = 1 /\ images

\* The label of the return-to-launcher button for a GUI width.
launcherLabelFor(width) == IF width > kLowresWidth THEN "full" ELSE "lowres"

\* The logo and title children and _logo after the constructor.
constructLogo(var, images) ==
    IF showsLogo(var, images)
    THEN [widgets |-> {kLogo}, logo |-> kLogo]
    ELSE [widgets |-> {kTitle}, logo |-> "null"]

\* reflowLogo leaving the title in place when the logo is shown.
reflowLogoKeepTitle(ws, lg, var, images) ==
    IF showsLogo(var, images)
    THEN [widgets |-> (IF lg = "null" THEN ws \cup {kLogo} ELSE ws), logo |-> kLogo]
    ELSE [widgets |-> ((ws \cup {kTitle}) \ (IF lg # "null" THEN {lg} ELSE {})),
          logo |-> "null"]

\* The logo and title children and _logo after reflowLayout.
reflowLogo(ws, lg, var, images) ==
    IF showsLogo(var, images)
    THEN [widgets |-> ((IF lg = "null" THEN ws \cup {kLogo} ELSE ws) \ {kTitle}),
          logo |-> kLogo]
    ELSE [widgets |-> ((ws \cup {kTitle}) \ (IF lg # "null" THEN {lg} ELSE {})),
          logo |-> "null"]

\* MainMenuDialog::reflowLayout(), with the theme and the overlay as they are
\* when it is called.
MainMenuDialog_reflowLayout(var, images, width) ==
    /\ showLogoVar' = var
    /\ supportsImages' = images
    /\ guiWidth' = width
    /\ launcherLabel' = launcherLabelFor(width)
    /\ LET r == reflowLogo(widgets, logo, var, images)
       IN /\ widgets' = r.widgets
          /\ logo' = r.logo
    /\ menuOp' = "reflowLayout"
    /\ menuTrace' = <<>>
    /\ UNCHANGED <<features, canSaveNow, canLoadNow, dialogOpen, loadSlot,
                   widgetVars, tabVars>>

\* The dialog is run again after it closed; the game has gone on meanwhile and
\* the engine's answers may have changed.
runModal(canSave, canLoad) ==
    /\ ~dialogOpen
    /\ dialogOpen' = TRUE
    /\ canSaveNow' = canSave
    /\ canLoadNow' = canLoad
    /\ menuOp' = "runModal"
    /\ menuTrace' = <<>>
    /\ UNCHANGED <<features, loadSlot, widgets, logo, launcherLabel, showLogoVar,
                   supportsImages, guiWidth, widgetVars, tabVars>>

\* The state after MainMenuDialog's constructor, the dialog running.
MenuConstructed(feats, canSave, canLoad, var, images, width) ==
    /\ features = feats
    /\ canSaveNow = canSave
    /\ canLoadNow = canLoad
    /\ dialogOpen = TRUE
    /\ loadSlot = -1
    /\ menuOp = "construct"
    /\ menuTrace = <<>>
    /\ widgets = constructLogo(var, images).widgets
    /\ logo = constructLogo(var, images).logo
    /\ launcherLabel = launcherLabelFor(width)
    /\ showLogoVar = var
    /\ supportsImages = images
    /\ guiWidth = width

InitMenu ==
    \E feats \in SUBSET Features, canSave \in Eligibility, canLoad \in Eligibility,
       var \in ShowLogoValues, images \in BOOLEAN, width \in GuiWidths :
        MenuConstructed(feats, canSave, canLoad, var, images, width)

NextMenu ==
    \/ \E cmd \in MenuCommands, slot \in Slots, resultString \in ResultStrings,
          status \in Statuses :
            MainMenuDialog_handleCommand(cmd, slot, resultString, status)
    \/ \E var \in ShowLogoValues, images \in BOOLEAN, width \in GuiWidths :
            MainMenuDialog_reflowLayout(var, images, width)
    \/ \E canSave \in Eligibility, canLoad \in Eligibility : runModal(canSave, canLoad)

(***************************************************************************)
(* ConfigDialog                                                            *)
(***************************************************************************)

\* The answers a ConfigDialog's constructor gets: the engine's features,
\* whether the meta-engine and the backend build an options widget, and the
\* numbers of keymaps, achievements and statistics.
Environments ==
    [supportsChangingOptions : BOOLEAN,
     engineBuildsWidget : BOOLEAN,
     keymaps : 0..MaxKeymaps,
     backendBuildsWidget : BOOLEAN,
     achievementCount : 0..MaxAchievements,
     statCount : 0..MaxAchievements]

\* TabWidget::addTab(title): the tab is appended; its id is its index.
addTab(t, title) == [tabs |-> Append(t, title), id |-> Len(t)]

\* TabWidget::removeTab(tabID): the tab at that index is erased.
removeTab(t, tabID) ==
    [i \in 1..(Len(t) - 1) |-> IF i <= tabID THEN t[i] ELSE t[i + 1]]

\* _engineOptions after the "Game" tab's block: the meta-engine is asked for
\* a widget only if the engine supports changing options during runtime.
builtEngineOptions(env) == env.supportsChangingOptions /\ env.engineBuildsWidget

\* gameTab never removing the tab.
gameTabKept(t, hasEngineOptions) == addTab(t, "Game").tabs

\* The "Game" tab: added, and removed again if there is no engine widget.
gameTab(t, hasEngineOptions) ==
    LET added == addTab(t, "Game")
    IN IF hasEngineOptions THEN added.tabs ELSE removeTab(added.tabs, added.id)

\* The "Audio" tab.
audioTab(t) == addTab(t, "Audio").tabs

\* The "Keymaps" tab.
keymapsTab(t, keymaps) == IF keymaps # 0 THEN addTab(t, "Keymaps").tabs ELSE t

\* The "Backend" tab: added, and removed again if there is no backend widget.
backendTab(t, hasBackendOptions) ==
    LET added == addTab(t, "Backend")
    IN IF hasBackendOptions THEN added.tabs ELSE removeTab(added.tabs, added.id)

\* The "Achievements" and "Statistics" tabs.
achievementTabs(t, achievementCount, statCount) ==
    LET t1 == IF achievementCount # 0 THEN addTab(t, "Achievements").tabs ELSE t
    IN IF statCount # 0 THEN addTab(t1, "Statistics").tabs ELSE t1

\* The tabs after ConfigDialog's constructor.
constructedTabs(env) ==
    achievementTabs(
        backendTab(
            keymapsTab(audioTab(gameTab(<<>>, builtEngineOptions(env))), env.keymaps),
            env.backendBuildsWidget),
        env.achievementCount, env.statCount)

\* ConfigDialog::ConfigDialog()
ConfigDialog_ConfigDialog(env) ==
    /\ ~constructed
    /\ constructed' = TRUE
    /\ environment' = env
    /\ engineOptions' = builtEngineOptions(env)
    /\ backendOptions' = env.backendBuildsWidget
    /\ tabs' = constructedTabs(env)
    /\ activeTab' = 0
    /\ forwarded' = <<>>
    /\ UNCHANGED <<widgetVars, menuVars>>

\* ConfigDialog::build()
ConfigDialog_build ==
    /\ constructed
    /\ forwarded' = <<"OptionsDialog::build">>
                    \o (IF engineOptions THEN <<"_engineOptions->load">> ELSE <<>>)
    /\ UNCHANGED <<environment, constructed, tabs, activeTab, engineOptions,
                   backendOptions, widgetVars, menuVars>>

\* ConfigDialog::apply()
ConfigDialog_apply ==
    /\ constructed
    /\ forwarded' = (IF engineOptions THEN <<"_engineOptions->save">> ELSE <<>>)
                    \o <<"OptionsDialog::apply">>
    /\ UNCHANGED <<environment, constructed, tabs, activeTab, engineOptions,
                   backendOptions, widgetVars, menuVars>>

\* ConfigDialog::~ConfigDialog()
ConfigDialog_destroy ==
    /\ constructed
    /\ constructed' = FALSE
    /\ tabs' = <<>>
    /\ activeTab' = -1
    /\ engineOptions' = FALSE
    /\ backendOptions' = FALSE
    /\ forwarded' = <<>>
    /\ UNCHANGED <<environment, widgetVars, menuVars>>

\* No ConfigDialog exists.
TabsIdle ==
    /\ environment = [supportsChangingOptions |-> FALSE, engineBuildsWidget |-> FALSE,
                      keymaps |-> 0, backendBuildsWidget |-> FALSE,
                      achievementCount |-> 0, statCount |-> 0]
    /\ constructed = FALSE
    /\ tabs = <<>>
    /\ activeTab = -1
    /\ engineOptions = FALSE
    /\ backendOptions = FALSE
    /\ forwarded = <<>>

NextTabs ==
    \/ \E env \in Environments : ConfigDialog_ConfigDialog(env)
    \/ ConfigDialog_build
    \/ ConfigDialog_apply
    \/ ConfigDialog_destroy


\* A component a specification does not exercise stays as constructed.
WidgetIdle == WidgetConstructed(<<>>, [k \in Keys |-> "absent"])

MenuIdle == MenuConstructed({}, [ok |-> TRUE, msg |-> ""], [ok |-> TRUE, msg |-> ""],
                            0, FALSE, kLowresWidth)

InitMenuOnly == InitMenu /\ WidgetIdle /\ TabsIdle

SpecMenu == InitMenuOnly /\ [][NextMenu]_vars

InitTabsOnly == TabsIdle /\ WidgetIdle /\ MenuIdle

SpecTabs == InitTabsOnly /\ [][NextTabs]_vars

\* Option lists for the study of command handling: the group fields range
\* freely, the configuration fields are fixed.
GroupOption == [configOption : {"k1"}, defaultState : {FALSE},
                groupId : GroupIds, groupLeaderId : GroupIds]

InitGroups ==
    \E opts \in SeqUpTo(GroupOption, MaxOptions) :
        WidgetConstructed(opts, [k \in Keys |-> "absent"])

NextGroups ==
    \/ \E sender \in 0..Len(options), data \in DataValues :
            ExtraGuiOptionsWidget_handleCommand(sender, kClickGroupLeaderCmd, data)
    \/ ExtraGuiOptionsWidget_handleCommand(0, kOtherCmd, 0)
    \/ \E i \in Indices(options) : toggleState(i)

InitGroupsOnly == InitGroups /\ MenuIdle /\ TabsIdle

SpecGroups == InitGroupsOnly /\ [][NextGroups]_vars

\* Group layouts for the study of load and save: no groups, option 1 leading
\* all the others, and each option leading the next one round the list.
GroupLayouts(n) ==
    { [i \in 1..n |-> [groupId |-> 0, groupLeaderId |-> 0]],
      [i \in 1..n |-> IF i = 1 THEN [groupId |-> 0, groupLeaderId |-> 1]
                               ELSE [groupId |-> 1, groupLeaderId |-> 0]],
      [i \in 1..n |-> [groupId |-> i, groupLeaderId |-> (i % n) + 1]] }

ConfOption == [configOption : Keys, defaultState : BOOLEAN]

InitConf ==
    \E n \in 0..MaxOptions :
        \E co \in [1..n -> ConfOption], g \in GroupLayouts(n) :
            \E c \in [Keys -> {"absent", "true", "false"}] :
                WidgetConstructed(
                    [i \in 1..n |-> [configOption |-> co[i].configOption,
                                     defaultState |-> co[i].defaultState,
                                     groupId |-> g[i].groupId,
                                     groupLeaderId |-> g[i].groupLeaderId]], c)

NextConf ==
    \/ \E i \in Indices(options) : toggleState(i)
    \/ ExtraGuiOptionsWidget_load
    \/ ExtraGuiOptionsWidget_save

InitConfOnly == InitConf /\ MenuIdle /\ TabsIdle

SpecConf == InitConfOnly /\ [][NextConf]_vars

(***************************************************************************)
(* Properties                                                              *)
(***************************************************************************)

\* C1: after save, the value written to the configuration store for each
\* option i is (checkbox i is enabled AND checkbox i is checked), under that
\* option's key, one write per option in order; the store then holds, for
\* each key, the value of the last write to it. A disabled checkbox is never
\* persisted as true.
C1_SaveWritesEnabledAndChecked ==
    last.op = "save" =>
        /\ Len(confWrites) = Len(options)
        /\ \A i \in Indices(options) :
            /\ confWrites[i] = <<options[i].configOption,
                                 checkboxEnabled[i] /\ checkboxState[i]>>
            /\ ~checkboxEnabled[i] => confWrites[i][2] = FALSE
            /\ (\A j \in Indices(options) :
                    j > i => options[j].configOption # options[i].configOption)
               => conf[options[i].configOption] =
                    (IF checkboxEnabled[i] /\ checkboxState[i] THEN "true" ELSE "false")

\* A save that ran with a checkbox disabled and checked.
C1_Witness ==
    /\ last.op = "save"
    /\ \E i \in Indices(options) :
        /\ ~checkboxEnabled[i]
        /\ checkboxState[i]
        /\ confWrites[i] = <<options[i].configOption, FALSE>>

\* C2: after load, the checked state of each option's checkbox is the value
\* stored under the option's config key when the key exists in the store,
\* and the option's defaultState when it does not.
C2_LoadTakesStoredElseDefault ==
    last.op = "load" =>
        \A j \in Indices(options) :
            checkboxState[j] =
                (IF conf[options[j].configOption] # "absent"
                 THEN conf[options[j].configOption] = "true"
                 ELSE options[j].defaultState)

\* A load with one option whose stored value differs from its default and
\* another whose key is absent and whose default is true.
C2_Witness ==
    /\ last.op = "load"
    /\ \E j, k \in Indices(options) :
        /\ conf[options[j].configOption] # "absent"
        /\ (conf[options[j].configOption] = "true") # options[j].defaultState
        /\ conf[options[k].configOption] = "absent"
        /\ options[k].defaultState
        /\ checkboxState[k]

\* The groupLeaderId of the option whose checkbox sent the last command.
SenderLeaderId(l) == IF l.sender = 0 THEN 0 ELSE options[l.sender].groupLeaderId

\* C3: a toggle command from a group leader's checkbox sets the enabled
\* state of every checkbox whose option's groupId is the leader's
\* groupLeaderId to the payload (true for a non-zero payload, false for
\* zero); a toggle of a checkbox that leads no group changes the enabled
\* state of no other checkbox. The same holds when the user clicks the
\* checkbox, the payload being its new checked state.
C3_LeaderToggleSetsGroup ==
    [][/\ (last'.op = "handleCommand" /\ last'.cmd = kClickGroupLeaderCmd) =>
            /\ SenderLeaderId(last') # 0 =>
                \A i \in Indices(options) :
                    options[i].groupId = SenderLeaderId(last')
                        => checkboxEnabled'[i] = (last'.data # 0)
            /\ SenderLeaderId(last') = 0 =>
                \A i \in Indices(options) :
                    i # last'.sender => checkboxEnabled'[i] = checkboxEnabled[i]
       /\ last'.op = "toggleState" =>
            /\ SenderLeaderId(last') # 0 =>
                \A i \in Indices(options) :
                    options[i].groupId = SenderLeaderId(last')
                        => checkboxEnabled'[i] = checkboxState'[last'.sender]
            /\ SenderLeaderId(last') = 0 =>
                \A i \in Indices(options) :
                    i # last'.sender => checkboxEnabled'[i] = checkboxEnabled[i]
      ]_vars

\* A leader's toggle command with payload false has disabled another checkbox
\* of its group.
C3_Witness ==
    /\ last.op = "handleCommand"
    /\ last.cmd = kClickGroupLeaderCmd
    /\ last.data = 0
    /\ SenderLeaderId(last) # 0
    /\ \E i \in Indices(options) :
        /\ i # last.sender
        /\ options[i].groupId = SenderLeaderId(last)
        /\ ~checkboxEnabled[i]

\* C9: a group leader's toggle command changes the enabled state only of
\* checkboxes whose groupId is the sender's groupLeaderId; every other
\* checkbox keeps its enabled state, no checkbox's checked state changes,
\* and when a member of the group leads another group, the members of that
\* other group keep their enabled state.
C9_LeaderToggleFrame ==
    [][(last'.op = "handleCommand" /\ last'.cmd = kClickGroupLeaderCmd) =>
            /\ checkboxState' = checkboxState
            /\ \A i \in Indices(options) :
                (SenderLeaderId(last') = 0 \/ options[i].groupId # SenderLeaderId(last'))
                    => checkboxEnabled'[i] = checkboxEnabled[i]
            /\ \A m, k \in Indices(options) :
                (/\ SenderLeaderId(last') # 0
                 /\ options[m].groupId = SenderLeaderId(last')
                 /\ options[m].groupLeaderId # 0
                 /\ options[m].groupLeaderId # SenderLeaderId(last')
                 /\ options[k].groupId = options[m].groupLeaderId)
                    => checkboxEnabled'[k] = checkboxEnabled[k]
      ]_vars

\* A leader's toggle command has disabled a member that leads another group,
\* a member of which is still enabled.
C9_Witness ==
    /\ last.op = "handleCommand"
    /\ last.cmd = kClickGroupLeaderCmd
    /\ last.data = 0
    /\ SenderLeaderId(last) # 0
    /\ \E m, k \in Indices(options) :
        /\ options[m].groupId = SenderLeaderId(last)
        /\ ~checkboxEnabled[m]
        /\ options[m].groupLeaderId # 0
        /\ options[m].groupLeaderId # SenderLeaderId(last)
        /\ options[k].groupId = options[m].groupLeaderId
        /\ checkboxEnabled[k]

\* The positions of the events named ev in a trace.
EventsOf(trace, ev) == {i \in 1..Len(trace) : trace[i].ev = ev}

\* C4: when Save (resp. Load) is invoked and the engine lacks the
\* saving (resp. loading) during runtime feature or reports that saving
\* (resp. loading) is not possible now, one message dialog is shown and
\* nothing else happens: no chooser is opened, saveGameState and
\* setGameToLoadSlot are not called, the load-requested slot is unchanged and
\* the main menu stays open. Without the feature the message is the fixed
\* "does not support" one.
C4_RefusedSaveLoadOnlyShowsMessage ==
    [][/\ (/\ menuOp' = kSaveCmd
           /\ (kSupportsSavingDuringRuntime \notin features \/ ~canSaveNow.ok)) =>
            /\ Len(menuTrace') = 1
            /\ menuTrace'[1].ev = "MessageDialog"
            /\ kSupportsSavingDuringRuntime \notin features
                    => menuTrace'[1].text = kNoSavingMsg
            /\ dialogOpen'
            /\ loadSlot' = loadSlot
       /\ (/\ menuOp' = kLoadCmd
           /\ (kSupportsLoadingDuringRuntime \notin features \/ ~canLoadNow.ok)) =>
            /\ Len(menuTrace') = 1
            /\ menuTrace'[1].ev = "MessageDialog"
            /\ kSupportsLoadingDuringRuntime \notin features
                    => menuTrace'[1].text = kNoLoadingMsg
            /\ dialogOpen'
            /\ loadSlot' = loadSlot
      ]_vars

\* Save was invoked with the feature present and the engine refusing.
C4_Witness ==
    /\ menuOp = kSaveCmd
    /\ kSupportsSavingDuringRuntime \in features
    /\ ~canSaveNow.ok
    /\ EventsOf(menuTrace, "MessageDialog") = {1}
    /\ dialogOpen

kMidCutscene == [ok |-> FALSE, msg |-> "rejected: mid-cutscene"]

\* C5 as stated: with the saving feature as the only capability flag and the
\* engine's load check rejecting with "rejected: mid-cutscene", Load shows
\* exactly that message and the dialog stays open.
C5_AsStated ==
    (/\ menuOp = kLoadCmd
     /\ features = {kSupportsSavingDuringRuntime}
     /\ canLoadNow = kMidCutscene)
        => /\ menuTrace = <<MessageDialog(<<"rejected: mid-cutscene">>)>>
           /\ dialogOpen

\* C5, amended: with the loading during runtime feature present (with or
\* without the saving feature) and the engine's load check rejecting with
\* "rejected: mid-cutscene", Load shows exactly that message and the dialog
\* stays open.
C5_LoadShowsEngineMessage ==
    (/\ menuOp = kLoadCmd
     /\ kSupportsLoadingDuringRuntime \in features
     /\ canLoadNow = kMidCutscene)
        => /\ menuTrace = <<MessageDialog(<<"rejected: mid-cutscene">>)>>
           /\ dialogOpen

\* Load was invoked with both features present and the engine rejecting with
\* that message.
C5_Witness ==
    /\ menuOp = kLoadCmd
    /\ features = {kSupportsSavingDuringRuntime, kSupportsLoadingDuringRuntime}
    /\ canLoadNow = kMidCutscene
    /\ Len(menuTrace) = 1

\* C6: when Save is permitted, the dialog closes if and only if the save
\* chooser returned a slot >= 0, whether the save succeeds or fails. With a
\* slot, saveGameState is called exactly once, for that slot; when it returns
\* a status other than no-error, one message holding the status' description
\* is shown before the dialog closes, and none otherwise. Without a slot no
\* save is attempted and the dialog stays open.
C6_SaveClosesIffSlotChosen ==
    (/\ menuOp = kSaveCmd
     /\ kSupportsSavingDuringRuntime \in features
     /\ canSaveNow.ok) =>
        /\ Len(menuTrace) >= 1
        /\ menuTrace[1].ev = "_saveDialog->runModalWithCurrentTarget"
        /\ dialogOpen <=> menuTrace[1].slot < 0
        /\ menuTrace[1].slot < 0 => Len(menuTrace) = 1
        /\ menuTrace[1].slot >= 0 =>
            /\ EventsOf(menuTrace, "saveGameState") = {2}
            /\ menuTrace[2].slot = menuTrace[1].slot
            /\ menuTrace[3].ev = "status"
            /\ EventsOf(menuTrace, "close") = {Len(menuTrace)}
            /\ IF menuTrace[3].text[1] # kNoError
               THEN /\ EventsOf(menuTrace, "MessageDialog") = {4}
                    /\ \E p \in 1..Len(menuTrace[4].text) :
                            menuTrace[4].text[p] = menuTrace[3].text[2]
                    /\ Len(menuTrace) = 5
               ELSE /\ EventsOf(menuTrace, "MessageDialog") = {}
                    /\ Len(menuTrace) = 4

\* A permitted save whose saveGameState failed, the dialog closed.
C6_Witness ==
    /\ menuOp = kSaveCmd
    /\ Len(menuTrace) = 5
    /\ menuTrace[3].ev = "status"
    /\ menuTrace[3].text[1] # kNoError
    /\ menuTrace[4].ev = "MessageDialog"
    /\ ~dialogOpen

\* C8: when Load is permitted, setGameToLoadSlot is called once with the
\* value the load chooser returned, the engine's load-requested slot is that
\* value afterwards, whatever it was before, and the dialog closes if and
\* only if the value is >= 0; on cancellation the slot becomes the negative
\* sentinel and the dialog stays open.
C8_LoadDelegatesChosenSlot ==
    [][(/\ menuOp' = kLoadCmd
        /\ kSupportsLoadingDuringRuntime \in features
        /\ canLoadNow.ok) =>
            /\ Len(menuTrace') >= 2
            /\ menuTrace'[1].ev = "_loadDialog->runModalWithCurrentTarget"
            /\ EventsOf(menuTrace', "setGameToLoadSlot") = {2}
            /\ menuTrace'[2].slot = menuTrace'[1].slot
            /\ loadSlot' = menuTrace'[1].slot
            /\ dialogOpen' <=> menuTrace'[1].slot < 0
            /\ menuTrace'[1].slot < 0 => loadSlot' < 0
      ]_vars

\* A permitted load whose chooser was dismissed.
C8_Witness ==
    /\ menuOp = kLoadCmd
    /\ Len(menuTrace) = 2
    /\ menuTrace[1].ev = "_loadDialog->runModalWithCurrentTarget"
    /\ menuTrace[1].slot < 0
    /\ menuTrace[2].ev = "setGameToLoadSlot"
    /\ loadSlot < 0
    /\ dialogOpen

\* C10: after construction and after every reflowLayout, the dialog holds
\* exactly one of the logo widget and the title widget: the logo if and only
\* if "Globals.ShowGlobalMenuLogo" was 1 and images were supported at the
\* last construction or reflow; _logo is non-null exactly when the logo
\* widget exists.
C10_LogoXorTitle ==
    /\ widgets \in {{kLogo}, {kTitle}}
    /\ kLogo \in widgets <=> (showLogoVar = 1 /\ supportsImages)
    /\ logo # "null" <=> kLogo \in widgets
    /\ logo \in {"null", kLogo}

\* A reflow has put the logo in place.
C10_Witness ==
    /\ menuOp = "reflowLayout"
    /\ widgets = {kLogo}
    /\ logo = kLogo

\* Whether the tab widget has a tab of that title.
HasTab(title) == \E i \in 1..Len(tabs) : tabs[i] = title

\* C7: after construction the tab set has "Game" exactly when the engine
\* supports changing options during runtime and an engine options widget was
\* produced, "Backend" exactly when the backend produced an options widget,
\* "Keymaps" exactly when the key-binding set is non-empty, always "Audio",
\* "Achievements" exactly when the achievement count is non-zero and
\* "Statistics" exactly when the statistic count is non-zero; no tab appears
\* twice.
C7_TabPresence ==
    constructed =>
        /\ HasTab("Game") <=>
                (environment.supportsChangingOptions /\ environment.engineBuildsWidget)
        /\ HasTab("Game") <=> engineOptions
        /\ HasTab("Backend") <=> environment.backendBuildsWidget
        /\ HasTab("Keymaps") <=> environment.keymaps # 0
        /\ HasTab("Audio")
        /\ HasTab("Achievements") <=> environment.achievementCount # 0
        /\ HasTab("Statistics") <=> environment.statCount # 0
        /\ \A i, j \in 1..Len(tabs) : tabs[i] = tabs[j] => i = j

\* A dialog built for an engine that supports changing options but gives no
\* widget, with no backend widget, statistics and no achievements.
C7_Witness ==
    /\ constructed
    /\ environment.supportsChangingOptions
    /\ ~environment.engineBuildsWidget
    /\ ~HasTab("Game")
    /\ ~HasTab("Backend")
    /\ HasTab("Statistics")
    /\ ~HasTab("Achievements")

====
